---- MODULE Spec2Model ----
(***************************************************************************)
(* Google Ads MCP service: the OAuth2 token manager (AutomatedTokenManager)*)
(* and the tool dispatch of GoogleAdsMCPServer, as a state machine.        *)
(*                                                                         *)
(* The server is a single node.js process.  A handler runs without        *)
(* interruption until it awaits real I/O (token endpoint, file system,     *)
(* query API); there another handler may run.  Each action below is one    *)
(* such uninterrupted stretch of one handler.                              *)
(***************************************************************************)
EXTENDS Integers, Sequences, FiniteSets, TLC

\* ---------------------------------------------------------------- bounds
MaxHandlers == 2
MaxRequests == 2
MaxIssued == 2
MaxTicks == 1
MaxRows == 2

\* ---------------------------------------------------------------- values
\* A nullable value is a sequence: <<>> is null/undefined/absent key, <<v>> is v.
NULL == <<>>
Some(v) == <<v>>

fiveMinutes == 5 * 60 * 1000

\* JSON-RPC codes: ErrorCode.MethodNotFound / ErrorCode.InternalError of the
\* MCP SDK, and the literal -32603 of handleMCPMessage.
MethodNotFound == 0 - 32601
InternalError == 0 - 32603

Handlers == 1..MaxHandlers

\* Access tokens are opaque non-empty strings; n stands for the n-th token the
\* token endpoint issued, 0 for a token seeded through the environment or file.
SeededAccess == Some(0)

EnvRefresh == "r_env"
FileRefresh == "r_file"
BootRefresh == "r_boot"

ToolNames == {"get_campaigns", "get_campaign_metrics", "test_connection"}
CallNames == ToolNames \cup {"nonexistent"}
Methods == {"initialize", "tools/list", "tools/call", "resources/list"}

\* HTTP requests: the verbs and paths the request listener tells apart, the
\* Mcp-Session-Id header (absent or present), and the body of a POST: not
\* JSON, the JSON null, a JSON value without members (a number, an array), a
\* message object, a message object without params.
HttpVerbs == {"GET", "POST", "DELETE", "OPTIONS", "PUT"}
HttpPaths == {"/", "/health", "/mcp", "/api/test", "/api/campaigns", "/other"}
SessionHeaders == {NULL, Some(<<"client-session">>)}
Bodies == {"unparsable", "null", "scalar", "message", "noparams"}

\* Error messages, as the parts that are concatenated.
MsgAuthFailed == <<"Authentication failed - may need to re-authenticate">>
MsgAuthRequired == <<"Initial authentication required - check logs for setup instructions">>
MsgExchange == <<"invalid_grant">>
MsgWrite == <<"EACCES: permission denied, open './tokens.json'">>
MsgQuery == <<"query failed">>
MsgNoArgs == <<"Cannot read properties of undefined">>
MsgParse == <<"Unexpected token in JSON">>
MsgNullMessage == <<"Cannot destructure property 'method' of 'message' as it is null.">>
MsgNoParams == <<"Cannot destructure property 'name' of 'params' as it is undefined.">>
MsgUnknownTool(name) == <<"Unknown tool: ", name>>
MsgUnknownMethod(method) == <<"Unknown method: ", method>>

VARIABLES
  env,         \* process.env: refresh_token, access_token, expiry_date, auth_code
  file,        \* content of ./tokens.json, NULL when the file does not exist
  tokens,      \* AutomatedTokenManager.tokens
  client,      \* credentials held by oauth2Client
  customer,    \* GoogleAdsMCPServer.customer
  emitted,     \* the last triple printed for the operator by saveTokens
  now,         \* Date.now()
  listening,   \* the HTTP server was started
  proc,        \* the handlers in flight
  issued,      \* number of access tokens issued by the token endpoint
  started,     \* number of requests started
  redeemed,    \* the authorization code was exchanged successfully
  rejectedBefore \* a refresh exchange of ensureValidTokens was rejected earlier

vars == <<env, file, tokens, client, customer, emitted, now, listening, proc,
          issued, started, redeemed, rejectedBefore>>

NoCredential == [refresh_token |-> NULL, access_token |-> NULL, expiry_date |-> NULL]

\* Of a handler, besides its position: `ensured` tells that an
\* ensureValidTokens call of this request returned normally, `req` is the HTTP
\* request served, `res` the HTTP responses written so far.

\* What is recorded of the ensureValidTokens call a handler is in: how the
\* stored credential stood at the call, the refresh exchanges the call made,
\* why it failed, whether an exchange had been rejected before the call, and
\* the stored credential as it was at the call.
NoEv == [class |-> "none", exch |-> 0, cause |-> "none", afterReject |-> FALSE,
         before |-> NULL]

Idle == [pc |-> "idle", via |-> "none", method |-> "none", tool |-> "none",
         id |-> 0, hasArgs |-> FALSE, ctx |-> "none", bctx |-> "none",
         resp |-> NULL, wbuf |-> NULL, ret |-> "none", err |-> NULL,
         boots |-> 0, gets |-> 0, exchReq |-> 0, loaded |-> "none",
         rej |-> FALSE, fault |-> "none", surfaced |-> NULL,
         ev |-> NoEv, out |-> NULL,
         ensured |-> FALSE, req |-> NULL, res |-> <<>>]

\* A stored credential with an access token and more than five minutes left.
FreshCredential(t) ==
  /\ t.access_token # NULL
  /\ t.expiry_date # NULL
  /\ t.expiry_date[1] - now > fiveMinutes

\* A stored credential without access token, without expiry, or with less
\* than five minutes left.
StaleCredential(t) ==
  \/ t.access_token = NULL
  \/ t.expiry_date = NULL
  \/ t.expiry_date[1] - now < fiveMinutes

CredentialClass(tk) ==
  CASE tk = NULL -> "null"
    [] FreshCredential(tk[1]) -> "fresh"
    [] StaleCredential(tk[1]) -> "stale"
    [] OTHER -> "edge"

\* ------------------------------------------------ AutomatedTokenManager

\* Variant: a ten-minute window.
isTokenExpiringSoon_TenMinuteWindow(t) ==
  IF t.expiry_date = NULL \/ t.expiry_date = Some(0)
  THEN TRUE
  ELSE (t.expiry_date[1] - now) < 2 * fiveMinutes

\* isTokenExpiringSoon, for a credential t.  !expiry_date holds for null and 0.
isTokenExpiringSoon(t) ==
  IF t.expiry_date = NULL \/ t.expiry_date = Some(0)
  THEN TRUE
  ELSE (t.expiry_date[1] - now) < fiveMinutes

\* The condition of ensureValidTokens.
NeedsRefresh(t) == t.access_token = NULL \/ isTokenExpiringSoon(t)

\* Variant: the response replaces the stored credential.
MergeTokens_ResponseOnly(old, new) ==
  [f \in DOMAIN NoCredential |-> new[f]]

\* { ...this.tokens, ...tokens }: a key the response carries overrides, a key
\* it omits keeps the stored value; spreading null contributes nothing.
MergeTokens(old, new) ==
  LET base == IF old = NULL THEN NoCredential ELSE old[1]
  IN  [f \in DOMAIN NoCredential |-> IF new[f] = NULL THEN base[f] ELSE new[f]]

\* What saveTokens prints for the operator once the file is written: nothing
\* without a refresh token, else each field that is truthy.
EmitFor(cur, prev) ==
  IF cur = NULL \/ cur[1].refresh_token = NULL
  THEN prev
  ELSE Some([refresh_token |-> cur[1].refresh_token,
             access_token |-> cur[1].access_token,
             expiry_date |-> IF cur[1].expiry_date = Some(0) THEN NULL
                             ELSE cur[1].expiry_date])

\* saveTokens up to its await: the merge, and the text handed to writeFile.
saveTokensBegin(s, creds, pc) ==
  LET merged == Some(MergeTokens(s.tokens, creds))
  IN  [s EXCEPT !.tokens = merged,
                !.p = [s.p EXCEPT !.pc = pc, !.resp = Some(creds), !.wbuf = merged]]

\* saveTokens after its await, then setCredentials(creds) of the caller.
saveTokensEnd(s) ==
  [s EXCEPT !.file = s.p.wbuf,
            !.emitted = EmitFor(s.tokens, s.emitted),
            !.client = MergeTokens(NULL, s.p.resp[1]),
            !.p = [s.p EXCEPT !.resp = NULL, !.wbuf = NULL]]

\* A call of ensureValidTokens from ctx: the handler is at its first line.
CallEnsureValid(s, ctx) ==
  [s EXCEPT !.p = [s.p EXCEPT !.pc = "ev_call", !.ctx = ctx]]

\* ensureValidTokens returns, or throws what its catch block throws.
EnsureReturns(s, ret, cause) ==
  [s EXCEPT !.p = [s.p EXCEPT !.pc = "ev_return", !.ret = ret,
                              !.err = IF ret = "ok" THEN NULL ELSE MsgAuthFailed,
                              !.ev.cause = cause,
                              !.ensured = @ \/ ret = "ok"]]

\* ensureValidTokens up to its first await.  Reading access_token of a null
\* this.tokens throws inside the try.
ensureValidTokens(s) ==
  LET s1 == [s EXCEPT !.p.ev = [NoEv EXCEPT !.class = CredentialClass(s.tokens),
                                            !.afterReject = rejectedBefore,
                                            !.before = s.tokens]]
  IN  IF s.tokens = NULL
      THEN EnsureReturns(s1, "throw", "notokens")
      ELSE IF NeedsRefresh(s.tokens[1])
      THEN [s1 EXCEPT !.p = [s1.p EXCEPT !.pc = "ev_refresh", !.ev.exch = @ + 1,
                                         !.exchReq = @ + 1]]
      ELSE EnsureReturns(s1, "ok", "none")

\* Variant: a rejected exchange is tried a second time before giving up.
ensureValidRejected_RetryOnce(s) ==
  IF s.p.ev.exch < 2
  THEN [s EXCEPT !.p = [s.p EXCEPT !.pc = "ev_refresh", !.rej = TRUE,
                                   !.ev.exch = @ + 1, !.exchReq = @ + 1]]
  ELSE [s EXCEPT !.p = [s.p EXCEPT !.pc = "ev_return", !.ret = "throw",
                                   !.err = MsgAuthFailed, !.rej = TRUE,
                                   !.ev.cause = "rejected"]]

\* ensureValidTokens when refreshAccessToken rejects: caught and rethrown.
ensureValidRejected(s) ==
  EnsureReturns([s EXCEPT !.p.rej = TRUE], "throw", "rejected")

\* ensureValidTokens when refreshAccessToken resolves with creds.
ensureValidRefreshed(s, creds) == saveTokensBegin(s, creds, "ev_write")

\* ensureValidTokens when writeFile settled.
ensureValidSaved(s, ok) ==
  IF ok
  THEN EnsureReturns(saveTokensEnd(s), "ok", "none")
  ELSE EnsureReturns([s EXCEPT !.p = [s.p EXCEPT !.resp = NULL, !.wbuf = NULL]],
                     "throw", "write")

\* performInitialAuth up to its await, called from the catch bctx.
performInitialAuth(s, bctx) ==
  LET base == [s.p EXCEPT !.bctx = bctx, !.boots = @ + 1]
  IN  IF env.auth_code
      THEN [s EXCEPT !.p = [base EXCEPT !.pc = "boot_token", !.ret = "await",
                                        !.gets = @ + 1]]
      ELSE [s EXCEPT !.p = [base EXCEPT !.ret = "throw", !.err = MsgAuthRequired]]

\* performInitialAuth when getToken rejects.
bootRejected(s) ==
  [s EXCEPT !.p = [s.p EXCEPT !.ret = "throw", !.err = MsgExchange]]

\* performInitialAuth when getToken resolves.
bootExchanged(s, creds) == saveTokensBegin(s, creds, "boot_write")

\* performInitialAuth when writeFile settled.
bootSaved(s, ok) ==
  IF ok
  THEN [saveTokensEnd(s) EXCEPT !.p.ret = "ok"]
  ELSE [s EXCEPT !.p = [s.p EXCEPT !.ret = "throw", !.err = MsgWrite,
                                   !.resp = NULL, !.wbuf = NULL]]

\* --------------------------------------------------- GoogleAdsMCPServer

\* JSON.stringify of the payloads of the three tools; the text of a tool
\* result is modelled by the object it serialises.
TestOkPayload(rows) ==
  [status |-> "success", message |-> "Google Ads API connection successful",
   customer_info |-> IF rows = <<>> THEN NULL ELSE Some(rows[1])]
TestErrorPayload(msg) ==
  [status |-> "error", message |-> "Failed to connect to Google Ads API",
   error |-> msg]
CampaignsPayload(rows) ==
  [status |-> "success", count |-> Len(rows), campaigns |-> rows]
MetricsPayload(campaignId, rows) ==
  [status |-> "success", campaign_id |-> campaignId, metrics |-> rows]

ToolResult(payload) == [content |-> <<[type |-> "text", text |-> payload]>>]

\* handleMCPMessage: the envelopes it returns.
ResultEnvelope(id, result) ==
  [jsonrpc |-> "2.0", id |-> id, result |-> Some(result), error |-> NULL,
   sessionId |-> NULL]
ErrorEnvelope(id, msg) ==
  [jsonrpc |-> "2.0", id |-> id, result |-> NULL,
   error |-> Some([code |-> InternalError, message |-> "Internal error",
                   data |-> msg]),
   sessionId |-> NULL]

\* The CallToolRequestSchema handler's catch: whatever was thrown is rethrown
\* as McpError(ErrorCode.InternalError, `Error executing ${name}: ...`); the
\* protocol layer answers a thrown McpError with an error response.
StreamError(id, name, msg) ==
  [jsonrpc |-> "2.0", id |-> id, result |-> NULL,
   error |-> Some([code |-> InternalError, message |-> <<"Error executing ", name, ": ">> \o msg,
                   data |-> NULL]),
   sessionId |-> NULL]

\* The static catalogs of the two tools/list handlers.
StreamCatalog == {"get_campaigns", "get_campaign_metrics", "test_connection"}
HttpCatalog == {"get_campaigns", "test_connection"}

\* The switch of the two tools/call dispatchers: the names with a case.
StreamCases == {"test_connection", "get_campaigns", "get_campaign_metrics"}
HttpCases == {"test_connection", "get_campaigns"}

\* Variant: the session id stays in the body and no header is set.
EndpointResponse_SessionInBody(response) ==
  [status |-> 200, session |-> NULL, body |-> Some(response)]

\* handleMCPEndpoint, POST: what is written once handleMCPMessage resolved
\* with response.  A truthy response.sessionId moves to the Mcp-Session-Id
\* header and is deleted from the body.
EndpointResponse(response) ==
  [status |-> 200, session |-> response.sessionId,
   body |-> Some([response EXCEPT !.sessionId = NULL])]

\* GET /api/test and GET /api/campaigns: the text of the tool result with
\* 200, or the catch of the request listener with 500.
ApiResponse(out) ==
  IF "thrown" \in DOMAIN out
  THEN [status |-> 500, session |-> NULL, body |-> Some([error |-> out.thrown])]
  ELSE [status |-> 200, session |-> NULL, body |-> Some(out.content[1].text)]

Responses(via, out) ==
  CASE via = "http" -> <<EndpointResponse(out)>>
    [] via = "api" -> <<ApiResponse(out)>>
    [] OTHER -> <<>>

\* The handler finishes with out; over HTTP the response is written.
Reply(s, out) ==
  [s EXCEPT !.p = [s.p EXCEPT !.pc = "done", !.out = Some(out),
                              !.res = @ \o Responses(s.p.via, out)]]

\* A tool handler returned result: what its caller answers.
Returned(s, result) ==
  CASE s.p.via = "http" -> Reply(s, ResultEnvelope(s.p.id, result))
    [] s.p.via = "stream" -> Reply(s, ResultEnvelope(s.p.id, result))
    [] OTHER -> Reply(s, result)

\* Variant: no catch around the dispatch, the exception escapes.
Thrown_Uncaught(s, msg) ==
  [s EXCEPT !.p = [s.p EXCEPT !.pc = "done", !.out = Some([thrown |-> msg])]]

\* A tool handler (or the dispatcher's switch) threw msg: what the caller's
\* catch answers.
Thrown(s, msg) ==
  CASE s.p.via = "http" -> Reply(s, ErrorEnvelope(s.p.id, msg))
    [] s.p.via = "stream" -> Reply(s, StreamError(s.p.id, s.p.tool, msg))
    [] OTHER -> Reply(s, [thrown |-> msg])

\* Variant: testConnection rethrows like the other tools.
ToolCatch_AlwaysRethrows(s, kind, msg) ==
  Thrown([s EXCEPT !.p.fault = kind, !.p.surfaced = msg], msg)

\* The catch block of a tool handler: testConnection returns the failure as
\* data, getCampaigns and getCampaignMetrics rethrow.
ToolCatch(s, kind, msg) ==
  LET s1 == [s EXCEPT !.p.fault = kind, !.p.surfaced = msg]
  IN  IF s.p.tool = "test_connection"
      THEN Returned(s1, ToolResult(TestErrorPayload(msg)))
      ELSE Thrown(s1, msg)

\* await this.customer.query(...)
QueryStart(s) == [s EXCEPT !.p.pc = "query"]

\* The tool handler when the query resolved with rows.
ToolQueried(s, rows) ==
  CASE s.p.tool = "test_connection" -> Returned(s, ToolResult(TestOkPayload(rows)))
    [] s.p.tool = "get_campaigns" -> Returned(s, ToolResult(CampaignsPayload(rows)))
    [] OTHER -> Returned(s, ToolResult(MetricsPayload("123", rows)))

\* getCampaigns / getCampaignMetrics after `await ensureValidTokens()`.
ToolAfterEnsure(s) ==
  IF s.p.ret = "ok" THEN QueryStart(s) ELSE ToolCatch(s, "refresh", s.p.err)

\* A tool handler after its `if (!this.customer)` block.
ToolBody(s) ==
  IF s.p.tool = "test_connection"
  THEN QueryStart(s)
  ELSE CallEnsureValid(s, "tool")

\* The caller of initializeGoogleAds, once it returned or threw: run() logs a
\* failure and starts the HTTP server either way; a tool handler goes on or
\* lands in its catch.
AfterInitializeGoogleAds(s) ==
  CASE s.p.via = "startup" -> Reply([s EXCEPT !.listening = TRUE], [started |-> s.p.ret = "ok"])
    [] s.p.ret = "ok" -> ToolBody(s)
    [] OTHER -> ToolCatch(s, "init", s.p.err)

\* initializeGoogleAds after `await initializeTokens()`: on success the query
\* client is built from tokens.refresh_token, a failure is logged and rethrown.
initializeGoogleAdsResume(s) ==
  IF s.p.ret = "ok"
  THEN IF s.tokens = NULL
       THEN AfterInitializeGoogleAds([s EXCEPT !.p.ret = "throw", !.p.err = MsgNoArgs])
       ELSE AfterInitializeGoogleAds(
              [s EXCEPT !.customer = Some([refresh_token |-> s.tokens[1].refresh_token])])
  ELSE AfterInitializeGoogleAds(s)

\* initializeTokens, the outer catch: performInitialAuth's outcome is the
\* outcome of initializeTokens.
OuterCatch(s) ==
  LET s1 == performInitialAuth(s, "outer")
  IN  IF s1.p.ret = "await" THEN s1 ELSE initializeGoogleAdsResume(s1)

\* performInitialAuth finished (ok or throw) in the outer catch.
OuterBootDone(s) == initializeGoogleAdsResume(s)

\* performInitialAuth finished in the inner catch: its throw is caught by the
\* outer catch, which calls performInitialAuth again.
InnerBootDone(s) ==
  IF s.p.ret = "ok" THEN initializeGoogleAdsResume(s) ELSE OuterCatch(s)

\* initializeTokens, the inner catch (fileError).
InnerCatch(s) ==
  LET s1 == performInitialAuth(s, "inner")
  IN  IF s1.p.ret = "await" THEN s1 ELSE InnerBootDone(s1)

\* initializeTokens after `await this.ensureValidTokens()` of the environment
\* path (in the outer try) or of the file path (in the inner try).
InitAfterEnsure(s) ==
  CASE s.p.ret = "ok" -> initializeGoogleAdsResume(s)
    [] s.p.ctx = "env" -> OuterCatch(s)
    [] OTHER -> InnerCatch(s)

\* initializeTokens from its start (through initializeGoogleAds).
initializeTokens(s) ==
  IF env.refresh_token # NULL
  THEN LET t == [refresh_token |-> env.refresh_token,
                 access_token |-> env.access_token,
                 expiry_date |-> env.expiry_date]
       IN  CallEnsureValid(
             [s EXCEPT !.tokens = Some(t), !.client = t, !.p.loaded = "env"], "env")
  ELSE [s EXCEPT !.p.pc = "init_read"]

\* initializeTokens when readFile settled: content is NULL when it rejected.
initializeTokensRead(s, content) ==
  IF content = NULL
  THEN InnerCatch(s)
  ELSE CallEnsureValid(
         [s EXCEPT !.tokens = content, !.client = content[1], !.p.loaded = "file"],
         "file")

\* Variant: no lazy initialization in the tool handlers.
ToolEnter_NoLazyInit(s) == ToolBody(s)

\* testConnection / getCampaigns / getCampaignMetrics from their start.
ToolEnter(s) ==
  IF s.customer = NULL THEN initializeTokens(s) ELSE ToolBody(s)

\* The CallToolRequestSchema handler (stream transport).
StreamCallTool(s) ==
  IF s.p.tool \in StreamCases
  THEN IF s.p.tool = "get_campaign_metrics" /\ ~s.p.hasArgs
       THEN Thrown(s, MsgNoArgs)
       ELSE ToolEnter(s)
  ELSE Thrown(s, <<"MCP error ", "MethodNotFound", ": ">> \o MsgUnknownTool(s.p.tool))

\* Variant: tools/list and tools/call are refused without a session header.
handleMCPMessage_RequiresSession(s, sid) ==
  CASE s.p.method = "initialize" ->
         Reply(s, [ResultEnvelope(s.p.id, [protocolVersion |-> "2025-03-26"])
                     EXCEPT !.sessionId = Some(sid)])
    [] s.p.method \in {"tools/list", "tools/call"}
         /\ (s.p.req = NULL \/ s.p.req[1].sid = NULL) ->
         Thrown(s, <<"No session">>)
    [] s.p.method = "tools/list" ->
         Reply(s, ResultEnvelope(s.p.id, [tools |-> HttpCatalog]))
    [] s.p.method = "tools/call" ->
         IF s.p.tool \in HttpCases THEN ToolEnter(s)
         ELSE Thrown(s, MsgUnknownTool(s.p.tool))
    [] OTHER -> Thrown(s, MsgUnknownMethod(s.p.method))

\* handleMCPMessage (HTTP transport).
handleMCPMessage(s, sid) ==
  CASE s.p.method = "initialize" ->
         Reply(s, [ResultEnvelope(s.p.id, [protocolVersion |-> "2025-03-26"])
                     EXCEPT !.sessionId = Some(sid)])
    [] s.p.method = "tools/list" ->
         Reply(s, ResultEnvelope(s.p.id, [tools |-> HttpCatalog]))
    [] s.p.method = "tools/call" ->
         IF s.p.req # NULL /\ s.p.req[1].body = "noparams"
         THEN Thrown(s, MsgNoParams)
         ELSE IF s.p.tool \in HttpCases THEN ToolEnter(s)
         ELSE Thrown(s, MsgUnknownTool(s.p.tool))
    [] OTHER -> Thrown(s, MsgUnknownMethod(s.p.method))

\* res.writeHead(status); res.end(body): the request is answered.
Write(s, status, session, body) ==
  [s EXCEPT !.p = [s.p EXCEPT !.pc = "done",
                              !.res = Append(@, [status |-> status, session |-> session,
                                                 body |-> body])]]

\* Variant: no catch in the body listener, the rejection is unhandled and
\* the process exits.
EndpointCatch_Unhandled(s, msg) ==
  [s EXCEPT !.listening = FALSE, !.p.pc = "crashed", !.p.err = msg]

\* handleMCPEndpoint, POST: the catch around JSON.parse and handleMCPMessage.
EndpointCatch(s, msg) ==
  Write(s, 500, NULL,
        Some([jsonrpc |-> "2.0",
              error |-> [code |-> InternalError, message |-> "Internal error",
                         data |-> msg]]))

\* handleMCPEndpoint, POST, once the body was read.  JSON.parse throws on
\* text that is not JSON; handleMCPMessage destructures its message before
\* its try, which throws on null; a value without members has no method.
EndpointPost(s, sid) ==
  CASE s.p.req[1].body = "unparsable" -> EndpointCatch(s, MsgParse)
    [] s.p.req[1].body = "null" -> EndpointCatch(s, MsgNullMessage)
    [] OTHER -> handleMCPMessage([s EXCEPT !.p.via = "http"], sid)

\* Variant: every DELETE is acknowledged.
EndpointDelete_AlwaysAcknowledges(s) == Write(s, 204, NULL, NULL)

\* handleMCPEndpoint, DELETE.
EndpointDelete(s) ==
  IF s.p.req[1].sid # NULL
  THEN Write(s, 204, NULL, NULL)
  ELSE Write(s, 405, NULL, NULL)

\* Variant: the event stream is left open, no timer is set.
handleMCPEndpoint_NoTimer(s, sid) ==
  CASE s.p.req[1].verb = "POST" -> EndpointPost(s, sid)
    [] s.p.req[1].verb = "GET" ->
         [Write(s, 200, NULL, Some([type |-> "ping"])) EXCEPT !.p.pc = "open"]
    [] s.p.req[1].verb = "DELETE" -> EndpointDelete(s)
    [] OTHER -> Write(s, 405, NULL, NULL)

\* handleMCPEndpoint.  GET answers an event stream with one ping, ended by a
\* timer one second later.
handleMCPEndpoint(s, sid) ==
  CASE s.p.req[1].verb = "POST" -> EndpointPost(s, sid)
    [] s.p.req[1].verb = "GET" ->
         [Write(s, 200, NULL, Some([type |-> "ping"])) EXCEPT !.p.pc = "sse"]
    [] s.p.req[1].verb = "DELETE" -> EndpointDelete(s)
    [] OTHER -> Write(s, 405, NULL, NULL)

\* Variant: the last branch answers 200.
RouteNotFound_Ok(s) == Write(s, 200, NULL, Some([error |-> <<"Not found">>]))

\* The request listener's last branch.
RouteNotFound(s) == Write(s, 404, NULL, Some([error |-> <<"Not found">>]))

\* The request listener of http.createServer (src/unnamed/part_001).
handleRequest(s, sid) ==
  LET verb == s.p.req[1].verb
      path == s.p.req[1].path
  IN  CASE verb = "OPTIONS" -> Write(s, 200, NULL, NULL)
        [] verb = "GET" /\ path = "/" ->
             Write(s, 200, NULL, Some([name |-> "Google Ads MCP Server", status |-> "running"]))
        [] verb = "GET" /\ path = "/health" ->
             Write(s, 200, NULL, Some([status |-> "ok"]))
        [] path = "/mcp" -> handleMCPEndpoint(s, sid)
        [] verb = "GET" /\ path = "/api/test" ->
             ToolEnter([s EXCEPT !.p.via = "api", !.p.tool = "test_connection"])
        [] verb = "GET" /\ path = "/api/campaigns" ->
             ToolEnter([s EXCEPT !.p.via = "api", !.p.tool = "get_campaigns"])
        [] OTHER -> RouteNotFound(s)

\* The status the request listener of src/index.js answers with, where the
\* tools are not involved: it has no / and no /mcp route.
indexRoute(verb, path) ==
  CASE verb = "OPTIONS" -> 200
    [] verb = "GET" /\ path = "/health" -> 200
    [] verb = "GET" /\ path \in {"/api/test", "/api/campaigns"} -> 0
    [] OTHER -> 404

\* The caller of ensureValidTokens goes on; getValidAccessToken returns
\* this.tokens.access_token.
AfterEnsure(s0) ==
  LET s == [s0 EXCEPT !.p.ev = NoEv]
  IN
  CASE s.p.ctx \in {"env", "file"} -> InitAfterEnsure(s)
    [] s.p.ctx = "tool" -> ToolAfterEnsure(s)
    [] OTHER -> IF s.p.ret = "ok"
                THEN Reply(s, [token |-> s.tokens[1].access_token])
                ELSE Reply(s, [thrown |-> s.p.err])

AfterBoot(s) ==
  IF s.p.bctx = "inner" THEN InnerBootDone(s) ELSE OuterBootDone(s)

\* ---------------------------------------------------------------- steps

\* Lifetimes of an access token, from the moment it is issued or seeded.
Lifetimes == {fiveMinutes - 1, fiveMinutes + 1}
Expiries == {NULL} \cup {Some(now + l) : l \in Lifetimes}

Rows(n) == [i \in 1..n |-> i]

View(h) ==
  [tokens |-> tokens, client |-> client, customer |-> customer,
   emitted |-> emitted, file |-> file, listening |-> listening, p |-> proc[h]]

Commit(h, s) ==
  /\ tokens' = s.tokens
  /\ client' = s.client
  /\ customer' = s.customer
  /\ emitted' = s.emitted
  /\ file' = s.file
  /\ listening' = s.listening
  /\ proc' = [proc EXCEPT ![h] = s.p]

Begin(h, via, method, tool, id, hasArgs) ==
  [View(h) EXCEPT !.p = [Idle EXCEPT !.pc = "run", !.via = via, !.method = method,
                                     !.tool = tool, !.id = id, !.hasArgs = hasArgs]]

\* The credentials a deployment may be seeded with (environment or file).
SeedCredentials(rt) ==
  {[refresh_token |-> Some(rt), access_token |-> NULL, expiry_date |-> NULL],
   [refresh_token |-> Some(rt), access_token |-> NULL,
    expiry_date |-> Some(1 + fiveMinutes + 1)],
   [refresh_token |-> Some(rt), access_token |-> SeededAccess,
    expiry_date |-> Some(1 + fiveMinutes + 1)]}

\* A request takes the first free handler slot.
FirstIdle(h) == proc[h].pc = "idle" /\ \A g \in 1..(h - 1) : proc[g].pc # "idle"

\* No handler is in the middle of a stretch of synchronous code: only then
\* does the event loop deliver a new request or the outcome of an await.
Quiet == \A h \in Handlers : proc[h].pc \notin {"ev_call", "ev_return", "done"}

Init ==
  /\ \E code \in BOOLEAN :
       \/ \E c \in SeedCredentials(EnvRefresh) :
            /\ env = [refresh_token |-> c.refresh_token, access_token |-> c.access_token,
                      expiry_date |-> c.expiry_date, auth_code |-> code]
            /\ file = NULL
       \/ /\ env = [refresh_token |-> NULL, access_token |-> NULL,
                    expiry_date |-> NULL, auth_code |-> code]
          /\ file \in {NULL} \cup {Some(c) : c \in SeedCredentials(FileRefresh)}
  /\ tokens = NULL
  /\ client = NoCredential
  /\ customer = NULL
  /\ emitted = NULL
  /\ now = 1
  /\ listening = FALSE
  /\ proc = [h \in Handlers |-> Idle]
  /\ issued = 0
  /\ started = 0
  /\ redeemed = FALSE
  /\ rejectedBefore = FALSE

\* run(): initializeGoogleAds, then startHttpServer.
Run ==
  /\ ~listening
  /\ \A h \in Handlers : proc[h].pc = "idle"
  /\ Commit(1, initializeTokens(Begin(1, "startup", "none", "none", 0, FALSE)))
  /\ UNCHANGED <<env, now, issued, started, redeemed, rejectedBefore>>

\* POST /mcp with a JSON-RPC message.
HttpPost(h, methods) ==
  /\ listening
  /\ Quiet
  /\ FirstIdle(h)
  /\ started < MaxRequests
  /\ \E method \in methods :
       \E tool \in (IF method = "tools/call" THEN CallNames ELSE {"none"}) :
         Commit(h, handleMCPMessage(Begin(h, "http", method, tool, started + 1, TRUE),
                                    <<"session", now, started + 1>>))
  /\ started' = started + 1
  /\ UNCHANGED <<env, now, issued, redeemed, rejectedBefore>>

\* Any HTTP request.  method, tool and id are those of the message in the
\* body of a POST /mcp; a value without members has neither method nor id.
HttpRequest(h) ==
  /\ listening
  /\ Quiet
  /\ FirstIdle(h)
  /\ started < MaxRequests
  /\ \E verb \in HttpVerbs, path \in HttpPaths, sid \in SessionHeaders :
       \E body \in (IF verb = "POST" /\ path = "/mcp" THEN Bodies ELSE {"none"}) :
         \E method \in (CASE body \in {"message", "noparams"} -> Methods
                           [] body = "scalar" -> {"undefined"}
                           [] OTHER -> {"none"}) :
           \E tool \in (IF body = "message" /\ method = "tools/call"
                         THEN CallNames ELSE {"none"}) :
             Commit(h, handleRequest(
                         [View(h) EXCEPT !.p =
                            [Idle EXCEPT !.pc = "run", !.via = "web", !.method = method,
                                         !.tool = tool, !.hasArgs = TRUE,
                                         !.id = IF body \in {"message", "noparams"}
                                                THEN started + 1 ELSE 0,
                                         !.req = Some([verb |-> verb, path |-> path,
                                                       sid |-> sid, body |-> body])]],
                         <<"session", now, started + 1>>))
  /\ started' = started + 1
  /\ UNCHANGED <<env, now, issued, redeemed, rejectedBefore>>

\* The timer of GET /mcp fires: res.end().
SseClose(h) ==
  /\ Quiet
  /\ proc[h].pc = "sse"
  /\ proc' = [proc EXCEPT ![h].pc = "done"]
  /\ UNCHANGED <<env, file, tokens, client, customer, emitted, now, listening,
                 issued, started, redeemed, rejectedBefore>>

\* A tools/call request reaching the CallToolRequestSchema handler.
StreamCall(h) ==
  /\ listening
  /\ Quiet
  /\ FirstIdle(h)
  /\ started < MaxRequests
  /\ \E tool \in CallNames, hasArgs \in BOOLEAN :
       /\ (tool = "get_campaign_metrics" \/ hasArgs)
       /\ Commit(h, StreamCallTool(Begin(h, "stream", "tools/call", tool, started + 1,
                                         hasArgs)))
  /\ started' = started + 1
  /\ UNCHANGED <<env, now, issued, redeemed, rejectedBefore>>

\* A tools/list request reaching the ListToolsRequestSchema handler.
StreamList(h) ==
  /\ listening
  /\ Quiet
  /\ FirstIdle(h)
  /\ started < MaxRequests
  /\ Commit(h, Reply(Begin(h, "stream", "tools/list", "none", started + 1, FALSE),
                     ResultEnvelope(started + 1, [tools |-> StreamCatalog])))
  /\ started' = started + 1
  /\ UNCHANGED <<env, now, issued, redeemed, rejectedBefore>>

\* getValidAccessToken().
GetValidAccessToken(h) ==
  /\ listening
  /\ Quiet
  /\ FirstIdle(h)
  /\ started < MaxRequests
  /\ Commit(h, CallEnsureValid(Begin(h, "direct", "none", "none", 0, FALSE), "direct"))
  /\ started' = started + 1
  /\ UNCHANGED <<env, now, issued, redeemed, rejectedBefore>>

\* ensureValidTokens is entered.
EnsureValid(h) ==
  /\ proc[h].pc = "ev_call"
  /\ Commit(h, ensureValidTokens(View(h)))
  /\ UNCHANGED <<env, now, issued, started, redeemed, rejectedBefore>>

\* ensureValidTokens has returned or thrown, and its caller goes on.
EnsureReturn(h) ==
  /\ proc[h].pc = "ev_return"
  /\ Commit(h, AfterEnsure(View(h)))
  /\ UNCHANGED <<env, now, issued, started, redeemed, rejectedBefore>>

\* fs.readFile settles.
ReadSettle(h) ==
  /\ Quiet
  /\ proc[h].pc = "init_read"
  /\ Commit(h, initializeTokensRead(View(h), file))
  /\ UNCHANGED <<env, now, issued, started, redeemed, rejectedBefore>>

\* oauth2Client.refreshAccessToken() rejects: always possible, and certain
\* when the client holds no refresh token.
RefreshReject(h) ==
  /\ Quiet
  /\ proc[h].pc = "ev_refresh"
  /\ Commit(h, ensureValidRejected(View(h)))
  /\ rejectedBefore' = TRUE
  /\ UNCHANGED <<env, now, issued, started, redeemed>>

\* oauth2Client.refreshAccessToken() resolves: a new access token, with or
\* without an expiry, with or without the refresh token.
RefreshResolve(h) ==
  /\ Quiet
  /\ proc[h].pc = "ev_refresh"
  /\ client.refresh_token # NULL
  /\ issued < MaxIssued
  /\ \E rt \in {NULL, client.refresh_token}, e \in Expiries :
       Commit(h, ensureValidRefreshed(View(h),
                [refresh_token |-> rt, access_token |-> Some(issued + 1),
                 expiry_date |-> e]))
  /\ issued' = issued + 1
  /\ UNCHANGED <<env, now, started, redeemed, rejectedBefore>>

\* fs.writeFile of saveTokens settles, within ensureValidTokens.
WriteSettle(h) ==
  /\ Quiet
  /\ proc[h].pc = "ev_write"
  /\ \E ok \in BOOLEAN : Commit(h, ensureValidSaved(View(h), ok))
  /\ UNCHANGED <<env, now, issued, started, redeemed, rejectedBefore>>

\* oauth2Client.getToken(code) rejects: always possible, and certain once the
\* code was exchanged.
BootReject(h) ==
  /\ Quiet
  /\ proc[h].pc = "boot_token"
  /\ Commit(h, AfterBoot(bootRejected(View(h))))
  /\ UNCHANGED <<env, now, issued, started, redeemed, rejectedBefore>>

\* oauth2Client.getToken(code) resolves with the first token pair.
BootResolve(h) ==
  /\ Quiet
  /\ proc[h].pc = "boot_token"
  /\ ~redeemed
  /\ issued < MaxIssued
  /\ \E e \in Expiries :
       Commit(h, bootExchanged(View(h),
                [refresh_token |-> Some(BootRefresh), access_token |-> Some(issued + 1),
                 expiry_date |-> e]))
  /\ issued' = issued + 1
  /\ redeemed' = TRUE
  /\ UNCHANGED <<env, now, started, rejectedBefore>>

\* fs.writeFile of saveTokens settles, within performInitialAuth.
BootWriteSettle(h) ==
  /\ Quiet
  /\ proc[h].pc = "boot_write"
  /\ \E ok \in BOOLEAN : Commit(h, AfterBoot(bootSaved(View(h), ok)))
  /\ UNCHANGED <<env, now, issued, started, redeemed, rejectedBefore>>

\* customer.query(...) rejects.
QueryReject(h) ==
  /\ Quiet
  /\ proc[h].pc = "query"
  /\ Commit(h, ToolCatch(View(h), "query", MsgQuery))
  /\ UNCHANGED <<env, now, issued, started, redeemed, rejectedBefore>>

\* customer.query(...) resolves with rows.
QueryResolve(h) ==
  /\ Quiet
  /\ proc[h].pc = "query"
  /\ \E n \in {0, MaxRows} : Commit(h, ToolQueried(View(h), Rows(n)))
  /\ UNCHANGED <<env, now, issued, started, redeemed, rejectedBefore>>

\* The response was sent; the handler is gone.
Respond(h) ==
  /\ proc[h].pc = "done"
  /\ proc' = [proc EXCEPT ![h] = Idle]
  /\ UNCHANGED <<env, file, tokens, client, customer, emitted, now, listening,
                 issued, started, redeemed, rejectedBefore>>

\* Time passes.
Tick ==
  /\ Quiet
  /\ now < 1 + MaxTicks
  /\ now' = now + 1
  /\ UNCHANGED <<env, file, tokens, client, customer, emitted, listening, proc,
                 issued, started, redeemed, rejectedBefore>>

\* What the event loop may deliver to handler slot h.
Deliver(h) ==
  \/ EnsureValid(h)
  \/ EnsureReturn(h)
  \/ ReadSettle(h)
  \/ RefreshReject(h)
  \/ RefreshResolve(h)
  \/ WriteSettle(h)
  \/ BootReject(h)
  \/ BootResolve(h)
  \/ BootWriteSettle(h)
  \/ QueryReject(h)
  \/ QueryResolve(h)
  \/ Respond(h)

Next ==
  \/ Run
  \/ Tick
  \/ \E h \in Handlers : HttpPost(h, Methods)
  \/ \E h \in Handlers : HttpRequest(h)
  \/ \E h \in Handlers : SseClose(h)
  \/ \E h \in Handlers : StreamCall(h)
  \/ \E h \in Handlers : StreamList(h)
  \/ \E h \in Handlers : GetValidAccessToken(h)
  \/ \E h \in Handlers : Deliver(h)

Spec == Init /\ [][Next]_vars

\* The same system when a request arrives only after the previous one was
\* answered: every request kind, every seeded deployment.
NextSerial ==
  \/ Run
  \/ Tick
  \/ HttpPost(1, Methods)
  \/ StreamCall(1)
  \/ StreamList(1)
  \/ GetValidAccessToken(1)
  \/ Deliver(1)

SpecSerial == Init /\ [][NextSerial]_vars

\* Two handlers interleaving at their awaits, for tools/call requests over
\* HTTP, in the deployments that start without a token file.
InitConcurrent == Init /\ file = NULL

NextConcurrent ==
  \/ Run
  \/ Tick
  \/ \E h \in Handlers : HttpPost(h, {"tools/call"})
  \/ \E h \in Handlers : Deliver(h)

SpecConcurrent == InitConcurrent /\ [][NextConcurrent]_vars

\* One HTTP request at a time, of every verb, path, session header and body.
NextHttp ==
  \/ Run
  \/ Tick
  \/ HttpRequest(1)
  \/ SseClose(1)
  \/ Deliver(1)

SpecHttp == Init /\ [][NextHttp]_vars

\* The timer set by GET /mcp fires once its delay has passed: the event loop
\* runs a due timer callback.
SpecHttpFair == SpecHttp /\ WF_vars(SseClose(1))

\* `${this.tokens.expiry_date}`: the decimal digits of a non-negative integer.
RECURSIVE Decimal(_)
Decimal(n) == IF n < 10 THEN <<n>> ELSE Append(Decimal(n \div 10), n % 10)

\* parseInt of a text of decimal digits.
RECURSIVE parseInt(_)
parseInt(digits) ==
  IF digits = <<>> THEN 0
  ELSE 10 * parseInt(SubSeq(digits, 1, Len(digits) - 1)) + digits[Len(digits)]

\* process.env of the next process once the operator copied the lines that
\* saveTokens printed (the triple em), as initializeTokens reads it: a
\* variable that was not printed is unset, GOOGLE_ADS_TOKEN_EXPIRY goes
\* through parseInt.
OperatorEnv(em, code) ==
  [refresh_token |-> em.refresh_token,
   access_token |-> em.access_token,
   expiry_date |-> IF em.expiry_date = NULL THEN NULL
                   ELSE Some(parseInt(Decimal(em.expiry_date[1]))),
   auth_code |-> code]

\* The credential initializeTokens builds from an environment e that has
\* GOOGLE_ADS_REFRESH_TOKEN.
EnvCredential(e) ==
  [refresh_token |-> e.refresh_token, access_token |-> e.access_token,
   expiry_date |-> e.expiry_date]

\* The process is restarted with the printed variables set: the token file
\* is gone, the objects are constructed anew.
Restart ==
  /\ listening
  /\ \A h \in Handlers : proc[h].pc = "idle"
  /\ emitted # NULL
  /\ env' = OperatorEnv(emitted[1], env.auth_code)
  /\ file' = NULL
  /\ tokens' = NULL
  /\ client' = NoCredential
  /\ customer' = NULL
  /\ emitted' = NULL
  /\ listening' = FALSE
  /\ rejectedBefore' = FALSE
  /\ UNCHANGED <<now, proc, issued, started, redeemed>>

\* Deployments whose GOOGLE_ADS_TOKEN_EXPIRY is the text "0".
ZeroExpirySeeds(rt) ==
  {[refresh_token |-> Some(rt), access_token |-> a, expiry_date |-> Some(0)] :
     a \in {NULL, SeededAccess}}

InitRestart ==
  \/ Init
  \/ /\ \E code \in BOOLEAN, c \in ZeroExpirySeeds(EnvRefresh) :
          env = [refresh_token |-> c.refresh_token, access_token |-> c.access_token,
                 expiry_date |-> c.expiry_date, auth_code |-> code]
     /\ file = NULL
     /\ tokens = NULL
     /\ client = NoCredential
     /\ customer = NULL
     /\ emitted = NULL
     /\ now = 1
     /\ listening = FALSE
     /\ proc = [h \in Handlers |-> Idle]
     /\ issued = 0
     /\ started = 0
     /\ redeemed = FALSE
     /\ rejectedBefore = FALSE

\* One request at a time, over restarts of the process.
NextRestart ==
  \/ Run
  \/ Tick
  \/ Restart
  \/ HttpPost(1, {"tools/call"})
  \/ Deliver(1)

SpecRestart == InitRestart /\ [][NextRestart]_vars

\* --------------------------------------------------------------- claims

\* Handler h takes a step.
Acts(h) == proc'[h] # proc[h]

AtReturn(h) == proc[h].pc = "ev_return"
AtDone(h) == proc[h].pc = "done"

\* C1: when ensureValidTokens is called on a stored credential that has an
\* access token and more than five minutes left, the call returns at once
\* without a refresh exchange, without a file write and with the stored
\* credential, the client credentials and the operator output untouched; and
\* getValidAccessToken then returns that credential's access token.
C1_FreshNoRefresh ==
  [][\A h \in Handlers :
       /\ (proc[h].pc = "ev_call" /\ Acts(h) /\ tokens # NULL /\ FreshCredential(tokens[1]))
            => /\ proc'[h].pc = "ev_return"
               /\ proc'[h].ret = "ok"
               /\ proc'[h].ev.exch = 0
               /\ proc'[h].exchReq = proc[h].exchReq
               /\ tokens' = tokens
               /\ file' = file
               /\ client' = client
               /\ emitted' = emitted
               /\ issued' = issued
       /\ (AtReturn(h) /\ Acts(h) /\ proc[h].ctx = "direct" /\ proc[h].ev.class = "fresh")
            => /\ proc'[h].pc = "done"
               /\ proc'[h].out = Some([token |-> tokens[1].access_token])
               /\ tokens' = tokens]_vars

\* getValidAccessToken answered from a fresh credential, no exchange made.
C1_Witness ==
  \E h \in Handlers :
    /\ AtDone(h)
    /\ proc[h].via = "direct"
    /\ proc[h].exchReq = 0
    /\ tokens # NULL
    /\ FreshCredential(tokens[1])
    /\ proc[h].out = Some([token |-> tokens[1].access_token])

\* C2: a call of ensureValidTokens on a stored credential without access
\* token, without expiry or with less than five minutes left has made exactly
\* one refresh exchange when it returns or throws, and when it returns
\* normally the stored credential has an access token.
C2_StaleRefreshedOnce ==
  \A h \in Handlers :
    (AtReturn(h) /\ proc[h].ev.class = "stale")
      => /\ proc[h].ev.exch = 1
         /\ proc[h].ret = "ok"
              => (tokens # NULL /\ tokens[1].access_token # NULL)

\* A call that refreshed a stale credential returns normally while the stored
\* credential has no access token: another request's initializeTokens reloaded
\* this.tokens from the environment while this call awaited writeFile.
C2_ClobberedByReload ==
  \E h \in Handlers :
    /\ AtReturn(h)
    /\ proc[h].ev.class = "stale"
    /\ proc[h].ev.exch = 1
    /\ proc[h].ret = "ok"
    /\ tokens # NULL
    /\ tokens[1].access_token = NULL
    /\ tokens[1].refresh_token = Some(EnvRefresh)

\* C3: a step of a refresh (entering ensureValidTokens, the exchange settling,
\* the file write settling) never takes the refresh token out of the stored
\* credential, and when the response of the exchange omits the refresh token
\* the stored one is the one held before.
C3_RefreshTokenKept ==
  [][\A h \in Handlers :
       (/\ proc[h].pc \in {"ev_call", "ev_refresh", "ev_write"}
        /\ Acts(h)
        /\ tokens # NULL
        /\ tokens[1].refresh_token # NULL)
         => /\ tokens' # NULL
            /\ tokens'[1].refresh_token # NULL
            /\ (proc'[h].pc = "ev_write" /\ proc'[h].resp[1].refresh_token = NULL)
                 => tokens'[1].refresh_token = tokens[1].refresh_token]_vars

\* A response without refresh token was merged and the stored one is kept.
C3_Witness ==
  \E h \in Handlers :
    /\ proc[h].pc = "ev_write"
    /\ proc[h].resp[1].refresh_token = NULL
    /\ tokens # NULL
    /\ tokens[1].refresh_token # NULL

\* C4: performInitialAuth is entered by an initializeTokens call only if that
\* call loaded no credential, neither from the environment nor from the file.
C4_NoBootstrapWithRefreshToken ==
  \A h \in Handlers : proc[h].boots > 0 => proc[h].loaded = "none"

\* performInitialAuth entered by a call that loaded the refresh token from
\* the environment and whose refresh exchange was rejected.
C4_BootstrapAfterEnvLoad ==
  \E h \in Handlers :
    /\ proc[h].loaded = "env"
    /\ proc[h].rej
    /\ proc[h].boots > 0

\* C5: an initializeTokens call that finds no refresh token in the
\* environment, no token file and no authorization code enters
\* performInitialAuth once, calls getToken never, and fails with
\* "Initial authentication required".
C5_BootstrapFailsOnce ==
  \A h \in Handlers :
    (/\ AtDone(h)
     /\ env.refresh_token = NULL
     /\ ~env.auth_code
     /\ proc[h].loaded = "none"
     /\ proc[h].boots > 0)
      => /\ proc[h].boots = 1
         /\ proc[h].gets = 0
         /\ proc[h].err = MsgAuthRequired

\* performInitialAuth entered twice by one call: from the inner catch, and
\* again from the outer catch that caught the first one's throw.
C5_BootstrapTwice ==
  \E h \in Handlers :
    /\ AtDone(h)
    /\ env.refresh_token = NULL
    /\ ~env.auth_code
    /\ proc[h].loaded = "none"
    /\ proc[h].boots = 2
    /\ proc[h].gets = 0
    /\ proc[h].err = MsgAuthRequired

\* C6: a call of ensureValidTokens whose refresh exchange is rejected throws
\* "Authentication failed" after that one exchange; and a call made on a
\* stale credential after an earlier rejection makes its own exchange.
C6_RejectedOnceThenRetried ==
  \A h \in Handlers :
    AtReturn(h)
      => /\ proc[h].ev.cause = "rejected"
              => /\ proc[h].ev.exch = 1
                 /\ proc[h].ret = "throw"
                 /\ proc[h].err = MsgAuthFailed
         /\ (proc[h].ev.afterReject /\ proc[h].ev.class = "stale")
              => proc[h].ev.exch = 1

\* After a rejected exchange, a later call on a stale credential has made an
\* exchange of its own and returned normally.
C6_Witness ==
  \E h \in Handlers :
    /\ AtReturn(h)
    /\ proc[h].ev.afterReject
    /\ proc[h].ev.class = "stale"
    /\ proc[h].ev.exch = 1
    /\ proc[h].ret = "ok"

\* C7: a tool call during which a refresh exchange was rejected and which
\* ends in its catch block because of initialization or refresh has
\* "Authentication failed" as the error it surfaces.
C7_RejectionSurfacesAuthFailed ==
  \A h \in Handlers :
    (AtDone(h) /\ proc[h].rej /\ proc[h].fault \in {"init", "refresh"})
      => proc[h].surfaced = MsgAuthFailed

\* A tool call whose lazy initialization had its refresh exchange rejected
\* surfaces "Initial authentication required".
C7_RejectionSurfacesAuthRequired ==
  \E h \in Handlers :
    /\ AtDone(h)
    /\ proc[h].method = "tools/call"
    /\ proc[h].rej
    /\ proc[h].fault = "init"
    /\ proc[h].surfaced = MsgAuthRequired

IsEnvelope(out) ==
  /\ out # NULL
  /\ DOMAIN out[1] = {"jsonrpc", "id", "result", "error", "sessionId"}

\* C8: a tools/call that met a downstream failure (initialization, refresh or
\* query) answers, for test_connection, with a result envelope whose payload
\* has status "error" and no error member, and for get_campaigns and
\* get_campaign_metrics with an error envelope and no result member.
C8_ErrorAsDataAsymmetry ==
  \A h \in Handlers :
    (AtDone(h) /\ proc[h].method = "tools/call" /\ proc[h].fault # "none")
      => /\ IsEnvelope(proc[h].out)
         /\ proc[h].tool = "test_connection"
              => /\ proc[h].out[1].error = NULL
                 /\ proc[h].out[1].result # NULL
                 /\ proc[h].out[1].result[1].content[1].text.status = "error"
         /\ proc[h].tool \in {"get_campaigns", "get_campaign_metrics"}
              => /\ proc[h].out[1].error # NULL
                 /\ proc[h].out[1].result = NULL

\* test_connection over HTTP answered a failed refresh or initialization as
\* data.
C8_Witness ==
  \E h \in Handlers :
    /\ AtDone(h)
    /\ proc[h].via = "http"
    /\ proc[h].tool = "test_connection"
    /\ proc[h].fault = "init"
    /\ proc[h].out[1].error = NULL
    /\ proc[h].out[1].result[1].content[1].text.status = "error"

Carries(msg, name) == \E i \in DOMAIN msg : msg[i] = name

\* C9: a tools/call naming no tool of the dispatcher, and an HTTP message
\* with an unrecognised method, are answered with an error envelope: jsonrpc
\* "2.0", the id of the request, no result, and an error whose text carries
\* the offending name.
C9_UnknownNameAnswered ==
  \A h \in Handlers :
    AtDone(h)
      => /\ (proc[h].via = "http" /\ proc[h].method \notin {"initialize", "tools/list", "tools/call"})
              => /\ IsEnvelope(proc[h].out)
                 /\ proc[h].out[1].jsonrpc = "2.0"
                 /\ proc[h].out[1].id = proc[h].id
                 /\ proc[h].out[1].result = NULL
                 /\ proc[h].out[1].error # NULL
                 /\ Carries(proc[h].out[1].error[1].data, proc[h].method)
         /\ (proc[h].via = "http" /\ proc[h].method = "tools/call" /\ proc[h].tool \notin HttpCases)
              => /\ IsEnvelope(proc[h].out)
                 /\ proc[h].out[1].jsonrpc = "2.0"
                 /\ proc[h].out[1].id = proc[h].id
                 /\ proc[h].out[1].result = NULL
                 /\ proc[h].out[1].error # NULL
                 /\ Carries(proc[h].out[1].error[1].data, proc[h].tool)
         /\ (proc[h].via = "stream" /\ proc[h].method = "tools/call"
                                  /\ proc[h].tool \notin StreamCases)
              => /\ IsEnvelope(proc[h].out)
                 /\ proc[h].out[1].jsonrpc = "2.0"
                 /\ proc[h].out[1].id = proc[h].id
                 /\ proc[h].out[1].result = NULL
                 /\ proc[h].out[1].error # NULL
                 /\ Carries(proc[h].out[1].error[1].message, proc[h].tool)

\* tools/call "nonexistent" over HTTP was answered with an error envelope.
C9_Witness ==
  \E h \in Handlers :
    /\ AtDone(h)
    /\ proc[h].via = "http"
    /\ proc[h].tool = "nonexistent"
    /\ proc[h].out[1].error # NULL
    /\ proc[h].out[1].error[1].data = MsgUnknownTool("nonexistent")

\* C10: a tools/call naming no tool of the dispatcher is answered with the
\* method-not-found code, and that code is not the internal-error code.
C10_UnknownToolMethodNotFound ==
  /\ MethodNotFound # InternalError
  /\ \A h \in Handlers :
       (/\ AtDone(h)
        /\ proc[h].method = "tools/call"
        /\ proc[h].tool \notin (IF proc[h].via = "http" THEN HttpCases ELSE StreamCases))
         => /\ proc[h].out[1].error # NULL
            /\ proc[h].out[1].error[1].code = MethodNotFound

\* The stream handler answered an unknown tool with the internal-error code.
C10_StreamUnknownToolInternalError ==
  \E h \in Handlers :
    /\ AtDone(h)
    /\ proc[h].via = "stream"
    /\ proc[h].method = "tools/call"
    /\ proc[h].tool \notin StreamCases
    /\ proc[h].out[1].error # NULL
    /\ proc[h].out[1].error[1].code = InternalError

\* The server state a request can read or change.
ServerState == <<tokens, client, customer, emitted, file, listening>>

\* C11: a tools/list request, on the stream handler and on POST /mcp, is
\* answered at once with the catalog whose tool names are get_campaigns,
\* get_campaign_metrics and test_connection, and changes no server state.
C11_ToolsListCatalog ==
  [][\A h \in Handlers :
       (proc[h].pc = "idle" /\ proc'[h].method = "tools/list")
         => /\ proc'[h].pc = "done"
            /\ proc'[h].out # NULL
            /\ proc'[h].out[1].result # NULL
            /\ proc'[h].out[1].result[1].tools =
                 {"get_campaigns", "get_campaign_metrics", "test_connection"}
            /\ ServerState' = ServerState]_vars

\* POST /mcp tools/list answered with a catalog without get_campaign_metrics.
C11_HttpCatalogShort ==
  \E h \in Handlers :
    /\ AtDone(h)
    /\ proc[h].via = "http"
    /\ proc[h].method = "tools/list"
    /\ proc[h].out[1].result[1].tools = {"get_campaigns", "test_connection"}

\* C12: a POST /mcp tools/call of get_campaign_metrics that met no downstream
\* failure is answered with a result whose payload has status "success", the
\* campaign id of the request and the rows of the query as metrics.
C12_HttpMetricsDispatchable ==
  \A h \in Handlers :
    (/\ AtDone(h)
     /\ proc[h].via = "http"
     /\ proc[h].method = "tools/call"
     /\ proc[h].tool = "get_campaign_metrics"
     /\ proc[h].fault = "none")
      => /\ proc[h].out # NULL
         /\ proc[h].out[1].result # NULL
         /\ proc[h].out[1].result[1].content[1].text.status = "success"
         /\ proc[h].out[1].result[1].content[1].text.campaign_id = "123"
         /\ Len(proc[h].out[1].result[1].content[1].text.metrics) \in {0, MaxRows}

\* POST /mcp tools/call get_campaign_metrics answered "Unknown tool" without
\* a query having been made.
C12_HttpMetricsUnknownTool ==
  \E h \in Handlers :
    /\ AtDone(h)
    /\ proc[h].via = "http"
    /\ proc[h].tool = "get_campaign_metrics"
    /\ proc[h].out[1].result = NULL
    /\ proc[h].out[1].error[1].data = MsgUnknownTool("get_campaign_metrics")

\* C13: whenever the query of a tools/call to test_connection, get_campaigns
\* or get_campaign_metrics is in flight, an ensureValidTokens call of that
\* request has returned normally before.
C13_EnsureValidBeforeQuery ==
  \A h \in Handlers :
    (/\ proc[h].pc = "query"
     /\ proc[h].method = "tools/call"
     /\ proc[h].tool \in ToolNames)
      => proc[h].ensured

\* test_connection, called when the query client exists already, queries
\* without any ensureValidTokens call.
C13_TestConnectionQueriesUnchecked ==
  \E h \in Handlers :
    /\ proc[h].pc = "query"
    /\ proc[h].tool = "test_connection"
    /\ proc[h].loaded = "none"
    /\ proc[h].boots = 0
    /\ ~proc[h].ensured

\* Handler h serves a tools/call that reached testConnection, getCampaigns
\* or getCampaignMetrics.
InToolHandler(h) ==
  /\ proc[h].pc # "idle"
  /\ proc[h].method = "tools/call"
  /\ \/ proc[h].via = "http" /\ proc[h].tool \in HttpCases
     \/ /\ proc[h].via = "stream"
        /\ proc[h].tool \in StreamCases
        /\ (proc[h].tool = "get_campaign_metrics" => proc[h].hasArgs)

\* initializeTokens was entered by the request of handler h.
InitAttempted(h) ==
  \/ proc[h].pc = "init_read"
  \/ proc[h].loaded # "none"
  \/ proc[h].boots > 0

\* C14: run() starts the HTTP server whether or not initialization succeeded;
\* while the query client does not exist every tool call in progress has
\* entered initialization, and a query is made only with the query client
\* built.
C14_LazyInitAfterFailedStartup ==
  /\ \A h \in Handlers :
       (AtDone(h) /\ proc[h].via = "startup") => listening
  /\ (customer = NULL /\ \E h \in Handlers : proc[h].via # "startup" /\ proc[h].pc # "idle")
       => listening
  /\ \A h \in Handlers :
       InToolHandler(h)
         => /\ customer = NULL => InitAttempted(h)
            /\ proc[h].pc = "query" => customer # NULL

\* After a failed startup a tool call initialized lazily and reached its query.
C14_Witness ==
  \E h \in Handlers :
    /\ InToolHandler(h)
    /\ proc[h].pc = "query"
    /\ InitAttempted(h)
    /\ customer # NULL
    /\ listening

\* Access tokens are numbered in the order in which their exchanges resolved.
\* Credential y (or NULL) holds an access token no older than that of x.
NotOlder(x, y) ==
  (x # NULL /\ x[1].access_token # NULL)
    => /\ y # NULL
       /\ y[1].access_token # NULL
       /\ y[1].access_token[1] >= x[1].access_token[1]

\* C15: with refreshes of two handlers interleaving, a step that stores the
\* result of an exchange (the merge when the exchange resolves, the file and
\* the client credentials when the write settles) never replaces an access
\* token by the result of an exchange that resolved earlier, and keeps the
\* refresh token.
C15_ConcurrentRefreshConverges ==
  [][\A h \in Handlers :
       (proc[h].pc \in {"ev_refresh", "ev_write"} /\ Acts(h))
         => /\ NotOlder(tokens, tokens')
            /\ NotOlder(file, file')
            /\ NotOlder(Some(client), Some(client'))
            /\ (tokens # NULL /\ tokens[1].refresh_token # NULL)
                 => (tokens' # NULL /\ tokens'[1].refresh_token # NULL)]_vars

\* Both refreshes are over; this.tokens holds the second token while the
\* token file and the client credentials hold the first.
C15_OlderTokenWrittenLast ==
  /\ \A h \in Handlers : proc[h].pc \notin {"ev_call", "ev_refresh", "ev_write"}
  /\ tokens # NULL
  /\ tokens[1].access_token = Some(2)
  /\ file # NULL
  /\ file[1].access_token = Some(1)
  /\ client.access_token = Some(1)

\* Handler h serves the HTTP request verb path.
Serves(h, verb, path) ==
  /\ proc[h].req # NULL
  /\ proc[h].req[1].verb = verb
  /\ proc[h].req[1].path = path

C17_DeleteSession ==
  [][\A h \in Handlers :
       (/\ proc[h].pc = "idle"
        /\ proc'[h].req # NULL
        /\ proc'[h].req[1].verb = "DELETE"
        /\ proc'[h].req[1].path = "/mcp")
         => /\ proc'[h].pc = "done"
            /\ Len(proc'[h].res) = 1
            /\ proc'[h].res[1].body = NULL
            /\ proc'[h].req[1].sid # NULL => proc'[h].res[1].status = 204
            /\ proc'[h].req[1].sid = NULL => proc'[h].res[1].status \in 400..499
            /\ ServerState' = ServerState]_vars

\* DELETE /mcp without session header was answered 405.
C17_Witness ==
  \E h \in Handlers :
    /\ AtDone(h)
    /\ Serves(h, "DELETE", "/mcp")
    /\ proc[h].req[1].sid = NULL
    /\ proc[h].res[1].status = 405

\* The method/path combinations the specification defines.
Defined(verb, path) ==
  \/ path = "/mcp" /\ verb \in {"POST", "GET", "DELETE"}
  \/ verb = "GET" /\ path \in {"/", "/health", "/api/test", "/api/campaigns"}

\* C18, as stated: every request outside the defined combinations is
\* answered 404.
C18_UndefinedIs404 ==
  \A h \in Handlers :
    (AtDone(h) /\ proc[h].req # NULL
       /\ ~Defined(proc[h].req[1].verb, proc[h].req[1].path))
      => proc[h].res[1].status = 404

\* C18, amended: a request outside the defined combinations is answered 200
\* when its method is OPTIONS, 405 when its path is /mcp, and 404 otherwise;
\* the listener of src/index.js answers 200 to OPTIONS and 404 otherwise.
C18_UndefinedIs404Or405 ==
  /\ \A h \in Handlers :
       (AtDone(h) /\ proc[h].req # NULL
          /\ ~Defined(proc[h].req[1].verb, proc[h].req[1].path))
         => proc[h].res[1].status =
              (CASE proc[h].req[1].verb = "OPTIONS" -> 200
                 [] proc[h].req[1].path = "/mcp" -> 405
                 [] OTHER -> 404)
  /\ \A verb \in HttpVerbs, path \in HttpPaths :
       ~Defined(verb, path)
         => indexRoute(verb, path) = (IF verb = "OPTIONS" THEN 200 ELSE 404)

\* PUT /mcp was answered 405.
C18_Witness ==
  \E h \in Handlers :
    /\ AtDone(h)
    /\ Serves(h, "PUT", "/mcp")
    /\ proc[h].res[1].status = 405

\* C19: the response to a POST /mcp has a Mcp-Session-Id header exactly when
\* the method of the message is initialize, its body has no sessionId, and
\* the id of an initialize is the one generated for this request, whatever
\* session header the request had.
C19_SessionIdInHeaderOnly ==
  \A h \in Handlers :
    (AtDone(h) /\ Serves(h, "POST", "/mcp"))
      => /\ Len(proc[h].res) = 1
         /\ proc[h].res[1].session # NULL <=> proc[h].method = "initialize"
         /\ (proc[h].res[1].body # NULL /\ "sessionId" \in DOMAIN proc[h].res[1].body[1])
              => proc[h].res[1].body[1].sessionId = NULL
         /\ proc[h].method = "initialize"
              => /\ proc[h].res[1].session = Some(<<"session", now, proc[h].id>>)
                 /\ proc[h].res[1].session # proc[h].req[1].sid

\* An initialize sent with a session header got a generated id in the header.
C19_Witness ==
  \E h \in Handlers :
    /\ AtDone(h)
    /\ Serves(h, "POST", "/mcp")
    /\ proc[h].method = "initialize"
    /\ proc[h].req[1].sid # NULL
    /\ proc[h].res[1].session = Some(<<"session", now, proc[h].id>>)
    /\ proc[h].res[1].body[1].sessionId = NULL

\* What handleMCPMessage makes of the server state and of a handler for the
\* message (method, tool) sent with session header sid, the header left out.
TryMessage(method, tool, sid) ==
  LET s == handleMCPMessage(
             [View(1) EXCEPT !.p =
                [Idle EXCEPT !.pc = "run", !.via = "http", !.method = method,
                             !.tool = tool, !.hasArgs = TRUE, !.id = 1,
                             !.req = Some([verb |-> "POST", path |-> "/mcp",
                                           sid |-> sid, body |-> "message"])]],
             <<"session", 0, 0>>)
  IN  [s EXCEPT !.p.req = NULL]

ToolMessages == {<<"tools/list", "none">>} \cup {<<"tools/call", n>> : n \in CallNames}

\* Handler h takes up an initialize or a DELETE /mcp, or finishes one.
SessionEvent(h) ==
  \/ /\ proc[h].pc = "idle"
     /\ proc'[h].req # NULL
     /\ \/ proc'[h].method = "initialize"
        \/ proc'[h].req[1].verb = "DELETE" /\ proc'[h].req[1].path = "/mcp"
  \/ /\ AtDone(h)
     /\ proc'[h].pc = "idle"
     /\ proc[h].req # NULL
     /\ \/ proc[h].method = "initialize"
        \/ proc[h].req[1].verb = "DELETE" /\ proc[h].req[1].path = "/mcp"

Saved(h) ==
  /\ proc[h].pc \in {"ev_write", "boot_write"}
  /\ Acts(h)
  /\ proc'[h].ret = "ok"

\* C21: whenever saveTokens completes and prints a credential for the
\* operator, the credential that initializeTokens builds at the next startup
\* from the printed variables equals the stored credential in refresh token,
\* access token and expiry, a zero or absent expiry and an absent access token
\* included.
C21_EmittedRoundTrip ==
  [][\A h \in Handlers :
       (Saved(h) /\ tokens' # NULL /\ tokens'[1].refresh_token # NULL)
         => /\ emitted' # NULL
            /\ EnvCredential(OperatorEnv(emitted'[1], env.auth_code)) = tokens'[1]]_vars

\* A credential with expiry 0 was saved and printed without its expiry: the
\* next startup loads it with expiry null.
C21_ZeroExpiryDropped ==
  /\ tokens # NULL
  /\ tokens[1].refresh_token # NULL
  /\ tokens[1].expiry_date = Some(0)
  /\ emitted # NULL
  /\ emitted[1].refresh_token = tokens[1].refresh_token
  /\ emitted[1].access_token = tokens[1].access_token
  /\ EnvCredential(OperatorEnv(emitted[1], env.auth_code)).expiry_date = NULL

\* C22: over the life of the process getToken is called with the
\* authorization code at most once: a call is made only while the code has
\* not been exchanged, and never a second time within one initialization,
\* whether the earlier exchange or the write that followed it failed, and
\* whether the initialization is the one of startup or of a tool call.
C22_CodeExchangedOnce ==
  [][\A h \in Handlers :
       (proc'[h].gets > proc[h].gets)
         => /\ ~redeemed
            /\ proc[h].gets = 0]_vars

\* The code was exchanged, writing the token file failed, and the outer catch
\* of initializeTokens has called getToken with the spent code.
C22_SpentCodeExchangedAgain ==
  \E h \in Handlers :
    /\ proc[h].pc = "boot_token"
    /\ proc[h].gets = 2
    /\ proc[h].bctx = "outer"
    /\ redeemed

\* What GET /mcp writes: status 200 and the event data: {"type":"ping"}.
PingEvent == [status |-> 200, session |-> NULL, body |-> Some([type |-> "ping"])]

\* C23: a GET on /mcp leaves an open stream on which exactly the placeholder
\* event was written; the only step of that stream afterwards is its close by
\* the timer, which writes nothing and takes no request; and every open
\* stream is eventually closed.
C23_StreamOneEventThenClosed ==
  /\ [][\A h \in Handlers :
          /\ (/\ proc[h].pc = "idle"
              /\ proc'[h].req # NULL
              /\ proc'[h].req[1].verb = "GET"
              /\ proc'[h].req[1].path = "/mcp")
               => /\ proc'[h].pc = "sse"
                  /\ proc'[h].res = <<PingEvent>>
          /\ (proc[h].pc = "sse" /\ Acts(h))
               => /\ proc'[h].pc = "done"
                  /\ proc'[h].res = <<PingEvent>>
                  /\ started' = started]_vars
  /\ \A h \in Handlers :
       (proc[h].req # NULL /\ proc[h].req[1].verb = "GET" /\ proc[h].req[1].path = "/mcp")
         ~> (AtDone(h) /\ proc[h].res = <<PingEvent>>)

\* The stream of a GET /mcp was closed after its one event.
C23_Witness ==
  \E h \in Handlers :
    /\ AtDone(h)
    /\ Serves(h, "GET", "/mcp")
    /\ proc[h].res = <<PingEvent>>

\* C24: whenever a refresh or a bootstrap completes (exchange resolved, file
\* written, setCredentials called), the credentials of the OAuth client have
\* the refresh token and the access token of the stored credential, also when
\* the response of the exchange carried no refresh token.
C24_ClientAgreesWithStored ==
  [][\A h \in Handlers :
       (Saved(h) /\ tokens' # NULL)
         => /\ client'.refresh_token = tokens'[1].refresh_token
            /\ client'.access_token = tokens'[1].access_token]_vars

\* A refresh whose response carried no refresh token returned normally: the
\* stored credential kept its refresh token, the client has none.
C24_ClientLostRefreshToken ==
  \E h \in Handlers :
    /\ AtReturn(h)
    /\ proc[h].ret = "ok"
    /\ proc[h].ev.exch = 1
    /\ tokens # NULL
    /\ tokens[1].refresh_token # NULL
    /\ client.refresh_token = NULL
    /\ client.access_token = tokens[1].access_token

\* Handler h is inside a refresh or a bootstrap: in ensureValidTokens, in
\* performInitialAuth, or reading the token file.
InFlight(h) ==
  proc[h].pc \in {"init_read", "ev_call", "ev_refresh", "ev_write",
                  "boot_token", "boot_write"}

\* C25: when a write of the token file succeeds and thereafter no refresh or
\* bootstrap is in flight in any handler, the token file holds the stored
\* credential, in whichever order the writes of overlapping refreshes settle.
C25_FileEqualsStored ==
  [][\A h \in Handlers :
       (Saved(h) /\ \A g \in Handlers : ~InFlight(g)')
         => file' = tokens']_vars

\* The write of the first of two overlapping refreshes has just succeeded,
\* as the last one, and nothing is in flight: the token file holds the first
\* token, the stored credential the second.
C25_FileBehindStored ==
  /\ \A g \in Handlers : ~InFlight(g)
  /\ \E h \in Handlers : AtReturn(h) /\ proc[h].ret = "ok" /\ proc[h].ev.exch = 1
  /\ file # NULL
  /\ tokens # NULL
  /\ file # tokens
  /\ file[1].access_token = Some(1)
  /\ tokens[1].access_token = Some(2)

\* C26: when ensureValidTokens throws "Authentication failed", because the
\* refresh exchange was rejected or because writing the merged credential
\* failed, the stored credential is the one it was when the call was made.
C26_FailedRefreshKeepsStored ==
  \A h \in Handlers :
    (AtReturn(h) /\ proc[h].ret = "throw" /\ proc[h].ev.cause \in {"rejected", "write"})
      => tokens = proc[h].ev.before

\* ensureValidTokens throws after the write of the token file failed: the
\* stored credential has the access token of the exchange, the token file and
\* the client do not.
C26_FailedWriteKeptMerge ==
  \E h \in Handlers :
    /\ AtReturn(h)
    /\ proc[h].ret = "throw"
    /\ proc[h].err = MsgAuthFailed
    /\ proc[h].ev.cause = "write"
    /\ proc[h].ev.before # NULL
    /\ proc[h].ev.before[1].access_token = NULL
    /\ tokens[1].access_token = Some(1)
    /\ client.access_token = NULL
    /\ file = NULL

\* C27: a call of get_campaigns or get_campaign_metrics makes at most one
\* refresh exchange, also when it first initializes the server, and whether
\* the response of the exchange carries no expiry, a short one or a long one.
C27_OneRefreshPerToolCall ==
  \A h \in Handlers :
    (proc[h].method = "tools/call"
       /\ proc[h].tool \in {"get_campaigns", "get_campaign_metrics"})
      => proc[h].exchReq <= 1

\* A get_campaigns call initialized the server, which refreshed the loaded
\* credential; the call's own ensureValidTokens refreshed again, and both
\* exchanges resolved.
C27_RefreshedTwice ==
  \E h \in Handlers :
    /\ proc[h].pc = "query"
    /\ proc[h].tool = "get_campaigns"
    /\ proc[h].loaded = "env"
    /\ proc[h].exchReq = 2
    /\ issued = 2
    /\ tokens[1].access_token = Some(2)

\* Handler h enters initializeTokens, or calls performInitialAuth.
EntersInit(h) == ~InitAttempted(h) /\ InitAttempted(h)'
CallsBootstrap(h) == proc'[h].boots > proc[h].boots

\* C28: the query client is set only by a handler whose initialization
\* returned normally; whenever it is set, and so whenever a tool handler is at
\* its ensureValidTokens call or at its query, the stored credential is
\* non-null and has a refresh token; and once it is set no handler enters
\* initialization or calls the bootstrap.
C28_CustomerOnlyAfterInit ==
  /\ [](customer # NULL => (tokens # NULL /\ tokens[1].refresh_token # NULL))
  /\ [](\A h \in Handlers :
          (InToolHandler(h) /\ (proc[h].pc = "query"
                                  \/ (proc[h].pc = "ev_call" /\ proc[h].ctx = "tool")))
            => (customer # NULL /\ tokens # NULL /\ tokens[1].refresh_token # NULL))
  /\ [][/\ (customer = NULL /\ customer' # NULL)
            => \E h \in Handlers :
                 Acts(h) /\ InitAttempted(h)' /\ proc'[h].ret = "ok"
        /\ customer # NULL
            => \A h \in Handlers : ~EntersInit(h) /\ ~CallsBootstrap(h)]_vars

\* Two tool calls initialize at once after a failed startup; the first has
\* set the query client, and the second, whose refresh was rejected, is in the
\* bootstrap exchange.
C28_BootstrapAfterCustomerSet ==
  \E h \in Handlers :
    /\ customer # NULL
    /\ InToolHandler(h)
    /\ proc[h].pc = "boot_token"
    /\ proc[h].loaded = "env"
    /\ proc[h].rej

====
